---- MODULE Spec2Model ----
(***************************************************************************)
(* NotebookLM skill: the URL validator (shared/url_validator.py) and the   *)
(* notebook library (skills/notebooklm/scripts/notebook_manager.py).       *)
(*                                                                         *)
(* Text is modelled as a sequence of one-character strings, so that        *)
(* strip, urlparse, the path pattern, geturl and the id derivation are     *)
(* computed character by character, as the code computes them.             *)
(* An optional value (Python's None or a value) is <<>> or <<value>>.      *)
(***************************************************************************)
EXTENDS Integers, Sequences, FiniteSets, TLC

None == <<>>
Some(x) == <<x>>
IsNone(o) == o = <<>>
Get(o) == o[1]

Min(a, b) == IF a <= b THEN a ELSE b
Range(s) == { s[i] : i \in 1..Len(s) }

(* ------------------------------ text --------------------------------- *)

LowerLetters == <<"a", "b", "c", "d", "e", "f", "g", "h", "i", "j", "k", "l", "m", "n", "o", "p", "q", "r", "s", "t", "u", "v", "w", "x", "y", "z">>
UpperLetters == <<"A", "B", "C", "D", "E", "F", "G", "H", "I", "J", "K", "L", "M", "N", "O", "P", "Q", "R", "S", "T", "U", "V", "W", "X", "Y", "Z">>
DigitChars == <<"0", "1", "2", "3", "4", "5", "6", "7", "8", "9">>

\* s[:n] and s[n:] with Python's clamping of the slice bounds
Take(s, n) == SubSeq(s, 1, Min(n, Len(s)))
Drop(s, n) == SubSeq(s, Min(n, Len(s)) + 1, Len(s))
StartsWith(s, p) == Len(p) <= Len(s) /\ SubSeq(s, 1, Len(p)) = p
Has(s, c) == \E i \in 1..Len(s) : s[i] = c

\* str.find(c, start): the first position >= start holding c, 0 when there is none
Find(s, c, start) ==
    IF \E i \in start..Len(s) : s[i] = c
    THEN CHOOSE i \in start..Len(s) : s[i] = c /\ \A j \in start..(i - 1) : s[j] # c
    ELSE 0

\* str.rfind(c): the last position holding c, 0 when there is none
RFind(s, c) ==
    IF Has(s, c)
    THEN CHOOSE i \in 1..Len(s) : s[i] = c /\ \A j \in (i + 1)..Len(s) : s[j] # c
    ELSE 0

\* str.replace(c, d) for one-character c and d
Replace(s, c, d) == [i \in 1..Len(s) |-> IF s[i] = c THEN d ELSE s[i]]

\* str.replace(c, "") for every c of a set
RemoveChars(s, set) == SelectSeq(s, LAMBDA c : c \notin set)

ToLower(c) ==
    IF \E i \in 1..Len(UpperLetters) : UpperLetters[i] = c
    THEN LowerLetters[CHOOSE i \in 1..Len(UpperLetters) : UpperLetters[i] = c]
    ELSE c

\* str.lower()
lower(s) == [i \in 1..Len(s) |-> ToLower(s[i])]

\* str.lstrip(set) and str.rstrip(set)
lstrip(s, set) ==
    IF \A i \in 1..Len(s) : s[i] \in set THEN <<>>
    ELSE SubSeq(s, CHOOSE i \in 1..Len(s) : s[i] \notin set /\ \A j \in 1..(i - 1) : s[j] \in set, Len(s))
rstrip(s, set) ==
    IF \A i \in 1..Len(s) : s[i] \in set THEN <<>>
    ELSE SubSeq(s, 1, CHOOSE i \in 1..Len(s) : s[i] \notin set /\ \A j \in (i + 1)..Len(s) : s[j] \in set)

\* The characters str.strip() removes (the ASCII ones the inputs can hold)
Whitespace == {" ", "\t", "\n", "\r"}
strip(s) == rstrip(lstrip(s, Whitespace), Whitespace)

(* ------------------------ urllib.parse.urlparse ----------------------- *)

scheme_chars == Range(LowerLetters) \cup Range(UpperLetters) \cup Range(DigitChars) \cup {"+", "-", "."}
\* Of the characters U+0000..U+0020, those the strings of this model can hold
WHATWG_C0_CONTROL_OR_SPACE == {" ", "\t", "\n", "\r"}
UNSAFE_URL_BYTES_TO_REMOVE == {"\t", "\r", "\n"}
uses_netloc ==
    { <<>>,
      <<"f", "t", "p">>,
      <<"h", "t", "t", "p">>,
      <<"g", "o", "p", "h", "e", "r">>,
      <<"n", "n", "t", "p">>,
      <<"t", "e", "l", "n", "e", "t">>,
      <<"i", "m", "a", "p">>,
      <<"w", "a", "i", "s">>,
      <<"f", "i", "l", "e">>,
      <<"m", "m", "s">>,
      <<"h", "t", "t", "p", "s">>,
      <<"s", "h", "t", "t", "p">>,
      <<"s", "n", "e", "w", "s">>,
      <<"p", "r", "o", "s", "p", "e", "r", "o">>,
      <<"r", "t", "s", "p">>,
      <<"r", "t", "s", "p", "s">>,
      <<"r", "t", "s", "p", "u">>,
      <<"r", "s", "y", "n", "c">>,
      <<"s", "v", "n">>,
      <<"s", "v", "n", "+", "s", "s", "h">>,
      <<"s", "f", "t", "p">>,
      <<"n", "f", "s">>,
      <<"g", "i", "t">>,
      <<"g", "i", "t", "+", "s", "s", "h">>,
      <<"w", "s">>,
      <<"w", "s", "s">> }
uses_params ==
    { <<>>,
      <<"f", "t", "p">>,
      <<"h", "d", "l">>,
      <<"p", "r", "o", "s", "p", "e", "r", "o">>,
      <<"h", "t", "t", "p">>,
      <<"i", "m", "a", "p">>,
      <<"h", "t", "t", "p", "s">>,
      <<"s", "h", "t", "t", "p">>,
      <<"r", "t", "s", "p">>,
      <<"r", "t", "s", "p", "s">>,
      <<"r", "t", "s", "p", "u">>,
      <<"s", "i", "p">>,
      <<"s", "i", "p", "s">>,
      <<"m", "m", "s">>,
      <<"s", "f", "t", "p">>,
      <<"t", "e", "l">> }

\* _splitnetloc(url, 2): the netloc ends at the first of / ? # after the two slashes
NetlocEnd(url) ==
    LET ds == { Find(url, c, 3) : c \in {"/", "?", "#"} } \ {0}
    IN  IF ds = {} THEN Len(url) + 1 ELSE CHOOSE d \in ds : \A e \in ds : d <= e

\* urlsplit's result: [error, scheme, netloc, path, query, fragment]; error is the
\* ValueError("Invalid IPv6 URL") of a bracket in the netloc (no input drawn here
\* holds a bracketed IPv6 literal, the one bracketed netloc that does not raise)
SplitResult(scheme, netloc, path, query, fragment) ==
    [error |-> Has(netloc, "[") \/ Has(netloc, "]"),
     scheme |-> scheme, netloc |-> netloc, path |-> path,
     query |-> query, fragment |-> fragment]

\* if '?' in url: url, query = url.split('?', 1)
SplitQueryAt(scheme, netloc, url, fragment, q) ==
    IF q > 0 THEN SplitResult(scheme, netloc, Take(url, q - 1), Drop(url, q), fragment)
    ELSE SplitResult(scheme, netloc, url, <<>>, fragment)
SplitQuery(scheme, netloc, url, fragment) ==
    SplitQueryAt(scheme, netloc, url, fragment, Find(url, "?", 1))

\* if '#' in url: url, fragment = url.split('#', 1)
SplitFragmentAt(scheme, netloc, url, h) ==
    IF h > 0 THEN SplitQuery(scheme, netloc, Take(url, h - 1), Drop(url, h))
    ELSE SplitQuery(scheme, netloc, url, <<>>)
SplitFragment(scheme, netloc, url) ==
    SplitFragmentAt(scheme, netloc, url, Find(url, "#", 1))

\* if url[:2] == '//': netloc, url = _splitnetloc(url, 2)
SplitNetlocAt(scheme, url, delim) ==
    SplitFragment(scheme, SubSeq(url, 3, delim - 1), Drop(url, delim - 1))
SplitNetloc(scheme, url) ==
    IF Take(url, 2) = <<"/", "/">> THEN SplitNetlocAt(scheme, url, NetlocEnd(url))
    ELSE SplitFragment(scheme, <<>>, url)

\* i = url.find(':'); a scheme is a letter followed by scheme_chars, and is lowercased
SplitSchemeAt(url, i) ==
    IF /\ i > 1
       /\ url[1] \in Range(LowerLetters) \cup Range(UpperLetters)
       /\ \A k \in 1..(i - 1) : url[k] \in scheme_chars
    THEN SplitNetloc(lower(Take(url, i - 1)), Drop(url, i))
    ELSE SplitNetloc(<<>>, url)
SplitScheme(url) == SplitSchemeAt(url, Find(url, ":", 1))

\* urlsplit(url): leading C0 control characters and spaces stripped, tab, CR and LF
\* removed, then scheme, netloc, fragment and query split off in that order
urlsplit(url) ==
    SplitScheme(RemoveChars(lstrip(url, WHATWG_C0_CONTROL_OR_SPACE), UNSAFE_URL_BYTES_TO_REMOVE))

\* _splitparams(url): the parameters of the last path segment
SplitParamsAt(url, i) ==
    IF i = 0 THEN [path |-> url, params |-> <<>>]
    ELSE [path |-> Take(url, i - 1), params |-> Drop(url, i)]
splitparams(url) ==
    SplitParamsAt(url, IF Has(url, "/") THEN Find(url, ";", RFind(url, "/")) ELSE Find(url, ";", 1))

ParseResult(s, sp) ==
    [error |-> s.error, scheme |-> s.scheme, netloc |-> s.netloc,
     path |-> sp.path, params |-> sp.params,
     query |-> s.query, fragment |-> s.fragment]

\* urlparse(url): urlsplit, then the params split off the path
ParseSplit(s) ==
    ParseResult(s, IF s.scheme \in uses_params /\ Has(s.path, ";")
                   THEN splitparams(s.path)
                   ELSE [path |-> s.path, params |-> <<>>])
urlparse(url) == ParseSplit(urlsplit(url))

\* urlunsplit((scheme, netloc, url, query, fragment))
JoinNetloc(scheme, netloc, url) ==
    IF netloc # <<>> \/ (scheme # <<>> /\ scheme \in uses_netloc /\ Take(url, 2) # <<"/", "/">>)
    THEN <<"/", "/">> \o netloc \o (IF url # <<>> /\ Take(url, 1) # <<"/">> THEN <<"/">> ELSE <<>>) \o url
    ELSE url
urlunsplit(scheme, netloc, url, query, fragment) ==
    (IF scheme # <<>> THEN scheme \o <<":">> ELSE <<>>)
    \o JoinNetloc(scheme, netloc, url)
    \o (IF query # <<>> THEN <<"?">> \o query ELSE <<>>)
    \o (IF fragment # <<>> THEN <<"#">> \o fragment ELSE <<>>)

\* ParseResult.geturl(): urlunparse(self)
geturl(p) ==
    urlunsplit(p.scheme, p.netloc,
               IF p.params # <<>> THEN p.path \o <<";">> \o p.params ELSE p.path,
               p.query, p.fragment)

(* ------------------------ NotebookLMURLValidator ---------------------- *)

ALLOWED_SCHEME == <<"h", "t", "t", "p", "s">>
ALLOWED_DOMAIN == <<"n", "o", "t", "e", "b", "o", "o", "k", "l", "m", ".", "g", "o", "o", "g", "l", "e", ".", "c", "o", "m">>
NotebookPrefix == <<"/", "n", "o", "t", "e", "b", "o", "o", "k", "/">>
IdClass == {"a", "b", "c", "d", "e", "f", "-"} \cup Range(DigitChars)

\* [a-f0-9-]+(/.*)?$ on what follows /notebook/ : "." is any character but a
\* newline, and "$" also matches before one final newline
MatchesIdAndRest(r) ==
    \E k \in 1..Len(r) :
        /\ \A j \in 1..k : r[j] \in IdClass
        /\ \/ k = Len(r)
           \/ k = Len(r) - 1 /\ r[Len(r)] = "\n"
           \/ r[k + 1] = "/" /\ \A j \in (k + 2)..(Len(r) - 1) : r[j] # "\n"

\* VALID_PATH_PATTERN.match(path) for ^/notebook/[a-f0-9-]+(/.*)?$
MatchesValidPath(path) ==
    StartsWith(path, NotebookPrefix) /\ MatchesIdAndRest(Drop(path, Len(NotebookPrefix)))

ValidationFailure(reason) == [ok |-> FALSE, reason |-> reason, url |-> <<>>]

\* validate's checks of the parsed URL, in the code's order
\* validate comparing the end of the netloc with the domain where line 65 compares all of it
CheckParsedDomainSuffix(parsed) ==
    IF parsed.error THEN ValidationFailure("format")
    ELSE IF parsed.scheme # ALLOWED_SCHEME THEN ValidationFailure("scheme")
    ELSE IF Drop(parsed.netloc, Len(parsed.netloc) - Len(ALLOWED_DOMAIN)) # ALLOWED_DOMAIN
         THEN ValidationFailure("domain")
    ELSE IF ~MatchesValidPath(parsed.path) THEN ValidationFailure("path")
    ELSE IF parsed.fragment # <<>> THEN ValidationFailure("fragment")
    ELSE [ok |-> TRUE, reason |-> "", url |-> geturl(parsed)]

\* validate without lines 59-62, the scheme check
CheckParsedAnyScheme(parsed) ==
    IF parsed.error THEN ValidationFailure("format")
    ELSE IF parsed.netloc # ALLOWED_DOMAIN THEN ValidationFailure("domain")
    ELSE IF ~MatchesValidPath(parsed.path) THEN ValidationFailure("path")
    ELSE IF parsed.fragment # <<>> THEN ValidationFailure("fragment")
    ELSE [ok |-> TRUE, reason |-> "", url |-> geturl(parsed)]

\* validate with lines 71-75, the path check, moved above the domain check
CheckParsedPathFirst(parsed) ==
    IF parsed.error THEN ValidationFailure("format")
    ELSE IF parsed.scheme # ALLOWED_SCHEME THEN ValidationFailure("scheme")
    ELSE IF ~MatchesValidPath(parsed.path) THEN ValidationFailure("path")
    ELSE IF parsed.netloc # ALLOWED_DOMAIN THEN ValidationFailure("domain")
    ELSE IF parsed.fragment # <<>> THEN ValidationFailure("fragment")
    ELSE [ok |-> TRUE, reason |-> "", url |-> geturl(parsed)]

CheckParsed(parsed) ==
    IF parsed.error THEN ValidationFailure("format")
    ELSE IF parsed.scheme # ALLOWED_SCHEME THEN ValidationFailure("scheme")
    ELSE IF parsed.netloc # ALLOWED_DOMAIN THEN ValidationFailure("domain")
    ELSE IF ~MatchesValidPath(parsed.path) THEN ValidationFailure("path")
    ELSE IF parsed.fragment # <<>> THEN ValidationFailure("fragment")
    ELSE [ok |-> TRUE, reason |-> "", url |-> geturl(parsed)]

\* validate(url): the normalized URL, or the URLValidationError raised
validate(url) ==
    IF url = <<>> \/ strip(url) = <<>> THEN ValidationFailure("empty")
    ELSE CheckParsed(urlparse(strip(url)))

\* is_valid running the checks on the string as given, without validate's strip
is_valid_unstripped(url) == url # <<>> /\ CheckParsed(urlparse(url)).ok

\* is_valid(url): validate with the URLValidationError swallowed
is_valid(url) == validate(url).ok

(* ---------------------------- bounds and inputs ----------------------- *)

MaxTime == 1           \* the clock runs over 0..MaxTime
MaxUse == 1            \* cap of use_count
MaxIdLen == 2          \* length of the id segment of the URLs drawn for validate

Times == 0..MaxTime

NotebookBase == ALLOWED_SCHEME \o <<":", "/", "/">> \o ALLOWED_DOMAIN \o NotebookPrefix
URL_Plain == NotebookBase \o <<"a", "1">>
URL_Messy == <<" ", "H", "T", "T", "P", "S", ":", "/", "/">> \o ALLOWED_DOMAIN \o NotebookPrefix \o <<"b", "2", "/", " ">>
URL_Params == NotebookBase \o <<"a", "1", ";", "x">>
URL_Evil == ALLOWED_SCHEME \o <<":", "/", "/">> \o ALLOWED_DOMAIN \o <<".", "e", "v", "i", "l", ".", "c", "o", "m">> \o NotebookPrefix \o <<"a", "1">>
URL_Fragment == NotebookBase \o <<"a", "1", "#", "f">>
LibraryURLs == {URL_Plain, URL_Params, URL_Evil, URL_Fragment}

Name_A_b == <<"A", " ", "b">>
Name_a_b == <<"a", "_", "b">>
Name_c == <<"c">>
Name_New == <<"Z", " ", "9">>
Name_d == <<"d">>
AddNames == {Name_A_b, Name_a_b, Name_c, Name_d}


Desc0 == <<"d", "0">>
Desc1 == <<"d", "1">>

(* ------------------------------- state -------------------------------- *)

VARIABLES
    notebooks,           \* self.notebooks: the dict in insertion order, <<[key, val], ...>>
    active_notebook_id,  \* self.active_notebook_id: None or Some(id)
    disk,                \* library.json: absent, partially written, or a written snapshot
    clock,               \* the latest value datetime.now() has returned
    last,                \* the last call: [op, result, on_active, supplied]
    url_parts,           \* the parts of the string handed to the validator
    url_call,            \* None, or Some([fn, out]) once the validator has been called
    other,               \* a second process on the same library.json: its notebooks and active id
    pending,             \* None, or Some([by_other, before, after]) while a write is under way
    runner,              \* SkillRunner.run: where it is, what it was asked, what it has started
    tree                 \* the files, directories and links that perform_cleanup works on

vars == <<notebooks, active_notebook_id, disk, clock, last, url_parts, url_call, other, pending,
          runner, tree>>
urlvars == <<url_parts, url_call>>
procvars == <<other, pending>>
toolvars == <<runner, tree>>

\* No call of run.py is under way
RunnerIdle == [pc |-> "idle"]

\* The file system is a set of entries: in the directory at, under a name, a file, a
\* directory (to names it) or a symbolic link to the directory to
File(at, name) == [at |-> at, name |-> name, kind |-> "file", to |-> ""]
Directory(at, name, to) == [at |-> at, name |-> name, kind |-> "dir", to |-> to]
Link(at, name, to) == [at |-> at, name |-> name, kind |-> "link", to |-> to]

\* The skill directory holding an empty data directory
DataOnly == { Directory("skill", "data", "data") }

(* ------------------------ dict in insertion order --------------------- *)

DictHas(d, k) == \E i \in 1..Len(d) : d[i].key = k
DictIndex(d, k) == CHOOSE i \in 1..Len(d) : d[i].key = k
DictGet(d, k) == d[DictIndex(d, k)].val
\* d[k] = v: an existing key keeps its place, a new key goes last
DictSet(d, k, v) ==
    IF DictHas(d, k) THEN [d EXCEPT ![DictIndex(d, k)] = [key |-> k, val |-> v]]
    ELSE Append(d, [key |-> k, val |-> v])
\* del d[k]
DictDel(d, k) == SelectSeq(d, LAMBDA e : e.key # k)
\* list(d.keys())
DictKeys(d) == [i \in 1..Len(d) |-> d[i].key]

(* --------------------------- NotebookLibrary -------------------------- *)

NoSnapshot == [state |-> "absent", notebooks |-> <<>>, active_notebook_id |-> None, updated_at |-> 0]
PartialSnapshot == [state |-> "partial", notebooks |-> <<>>, active_notebook_id |-> None, updated_at |-> 0]

\* What a write of library.json can do: succeed, fail in open() (the file is
\* untouched), or fail in json.dump() after open(..., 'w') has truncated the file
WriteOutcomes == {"ok", "open_fails", "write_fails"}

\* _save_library() adding what is in memory to what the file holds
save_library_merging(nb, active, t, w) ==
    IF w = "ok"
    THEN [state |-> "written",
          notebooks |-> disk.notebooks \o SelectSeq(nb, LAMBDA e : ~DictHas(disk.notebooks, e.key)),
          active_notebook_id |-> active, updated_at |-> t]
    ELSE IF w = "open_fails" THEN disk
    ELSE PartialSnapshot

\* _save_library(): the file after the call; every exception is caught and printed.
\* Any other outcome than "ok" and "open_fails" leaves the file as open(..., 'w')
\* made it: cut short, whether json.dump has failed or has not finished yet
save_library(nb, active, t, w) ==
    IF w = "ok"
    THEN [state |-> "written", notebooks |-> nb, active_notebook_id |-> active, updated_at |-> t]
    ELSE IF w = "open_fails" THEN disk
    ELSE PartialSnapshot

Saved(nb, active, t, w) ==
    /\ disk' = save_library(nb, active, t, w)
    /\ clock' = t

\* notebook_id = name.lower().replace(' ', '-').replace('_', '-')
DeriveId(name) == Replace(Replace(lower(name), " ", "-"), "_", "-")

\* The record of a call: what was called, how it ended, whether the id it was called
\* with was the active one, and how many optional arguments an update was given
Call(op, result, id) ==
    [op |-> op, result |-> result, on_active |-> active_notebook_id = Some(id), supplied |-> 0]

\* A call that raises (or, for remove, returns False) before anything is changed
Unchanged(op, result, id) ==
    /\ last' = Call(op, result, id)
    /\ UNCHANGED <<notebooks, active_notebook_id, disk, clock>>

\* content_types or [] : None and the empty list both give []
OrEmpty(o) == IF IsNone(o) THEN <<>> ELSE Get(o)

\* The notebook object add_notebook creates
NewNotebook(notebook_id, vurl, name, description, topics, content_types, use_cases, tags, t1, t2) ==
    [id |-> notebook_id, url |-> vurl, name |-> name,
     description |-> description, topics |-> topics,
     content_types |-> OrEmpty(content_types),
     use_cases |-> OrEmpty(use_cases), tags |-> OrEmpty(tags),
     created_at |-> t1, updated_at |-> t2,
     use_count |-> 0, last_used |-> None]

\* Lines 127-134 without the test of line 131: every added notebook is made active
AddToLibraryActivating(notebook_id, notebook, t3, w) ==
    /\ notebooks' = DictSet(notebooks, notebook_id, notebook)
    /\ active_notebook_id' = Some(notebook_id)
    /\ Saved(notebooks', active_notebook_id', t3, w)
    /\ last' = Call("add", "ok", notebook_id)

\* self.notebooks[notebook_id] = notebook; active if it is the first; _save_library()
AddToLibrary(notebook_id, notebook, t3, w) ==
    /\ notebooks' = DictSet(notebooks, notebook_id, notebook)
    /\ active_notebook_id' = IF Len(notebooks) = 0 THEN Some(notebook_id) ELSE active_notebook_id
    /\ Saved(notebooks', active_notebook_id', t3, w)
    /\ last' = Call("add", "ok", notebook_id)

\* validate is a pure function of its argument: its results for the URLs the library
\* operations are called with, computed once
ValidateTable == [url \in LibraryURLs \cup {URL_Messy} |-> validate(url)]
Validated(url) == IF url \in DOMAIN ValidateTable THEN ValidateTable[url] ELSE validate(url)

\* add_notebook without lines 107-109, the check for an existing key
AddOverExisting(v, notebook_id, name, description, topics, content_types, use_cases, tags, t1, t2, t3, w) ==
    IF ~v.ok THEN Unchanged("add", "invalid_url", notebook_id)
    ELSE AddToLibrary(notebook_id,
                      NewNotebook(notebook_id, v.url, name, description, topics,
                                  content_types, use_cases, tags, t1, t2),
                      t3, w)

\* add_notebook after validate(url) has returned v or raised
AddValidated(v, notebook_id, name, description, topics, content_types, use_cases, tags, t1, t2, t3, w) ==
    IF ~v.ok THEN Unchanged("add", "invalid_url", notebook_id)
    ELSE IF DictHas(notebooks, notebook_id) THEN Unchanged("add", "duplicate", notebook_id)
    ELSE AddToLibrary(notebook_id,
                      NewNotebook(notebook_id, v.url, name, description, topics,
                                  content_types, use_cases, tags, t1, t2),
                      t3, w)

\* add_notebook(url, name, description, topics, content_types, use_cases, tags);
\* t1, t2 and t3 are the three reads of datetime.now(), w the outcome of the write
add_notebook(url, name, description, topics, content_types, use_cases, tags, t1, t2, t3, w) ==
    AddValidated(Validated(url), DeriveId(name), name, description, topics,
                 content_types, use_cases, tags, t1, t2, t3, w)

\* remove_notebook without lines 152-157: the active id is left as it was
ActiveKeptAfterRemove(notebook_id, removed) == active_notebook_id

\* remove_notebook taking the last key where line 157 takes the first
ActiveLastAfterRemove(notebook_id, removed) ==
    IF active_notebook_id = Some(notebook_id)
    THEN IF removed # <<>> THEN Some(DictKeys(removed)[Len(removed)]) ELSE None
    ELSE active_notebook_id

\* remove_notebook without lines 155-157: the active id is cleared and not set again
ActiveClearedAfterRemove(notebook_id, removed) ==
    IF active_notebook_id = Some(notebook_id) THEN None ELSE active_notebook_id

\* The active id after notebook_id was deleted, removed being what is left
ActiveAfterRemove(notebook_id, removed) ==
    IF active_notebook_id = Some(notebook_id)
    THEN IF removed # <<>> THEN Some(DictKeys(removed)[1]) ELSE None
    ELSE active_notebook_id

\* remove_notebook(notebook_id)
remove_notebook(notebook_id, t, w) ==
    IF DictHas(notebooks, notebook_id)
    THEN /\ notebooks' = DictDel(notebooks, notebook_id)
         /\ active_notebook_id' = ActiveAfterRemove(notebook_id, notebooks')
         /\ Saved(notebooks', active_notebook_id', t, w)
         /\ last' = Call("remove", "ok", notebook_id)
    ELSE Unchanged("remove", "returned_false", notebook_id)

NoArgs == [name |-> None, description |-> None, topics |-> None, content_types |-> None,
           use_cases |-> None, tags |-> None, url |-> None]

\* The number of arguments that are not None
Supplied(a) == Cardinality({ f \in DOMAIN a : ~IsNone(a[f]) })
CallUpdate(result, id, a) == [Call("update", result, id) EXCEPT !.supplied = Supplied(a)]

\* One "if x is not None: notebook[x] = x"
SetIfGiven(notebook, field, o) == IF IsNone(o) THEN notebook ELSE [notebook EXCEPT ![field] = Get(o)]

\* update_notebook's assignments with "x or []" where lines 205-212 test "x is not None"
UpdatedFieldsDefaulting(notebook, a, vurl, t) ==
    [notebook EXCEPT !.url = IF IsNone(a.url) THEN @ ELSE vurl,
                     !.name = IF IsNone(a.name) THEN @ ELSE Get(a.name),
                     !.description = IF IsNone(a.description) THEN @ ELSE Get(a.description),
                     !.topics = OrEmpty(a.topics),
                     !.content_types = OrEmpty(a.content_types),
                     !.use_cases = OrEmpty(a.use_cases),
                     !.tags = OrEmpty(a.tags),
                     !.updated_at = t]

\* update_notebook's assignments followed by a new id derived from the new name
UpdatedFieldsRenaming(notebook, a, vurl, t) ==
    [notebook EXCEPT !.url = IF IsNone(a.url) THEN @ ELSE vurl,
                     !.name = IF IsNone(a.name) THEN @ ELSE Get(a.name),
                     !.id = IF IsNone(a.name) THEN @ ELSE DeriveId(Get(a.name)),
                     !.description = IF IsNone(a.description) THEN @ ELSE Get(a.description),
                     !.topics = IF IsNone(a.topics) THEN @ ELSE Get(a.topics),
                     !.content_types = IF IsNone(a.content_types) THEN @ ELSE Get(a.content_types),
                     !.use_cases = IF IsNone(a.use_cases) THEN @ ELSE Get(a.use_cases),
                     !.tags = IF IsNone(a.tags) THEN @ ELSE Get(a.tags),
                     !.updated_at = t]

\* The record after update_notebook's assignments, vurl being validate(url)
UpdatedFields(notebook, a, vurl, t) ==
    [SetIfGiven(
       SetIfGiven(
         SetIfGiven(
           SetIfGiven(
             SetIfGiven(
               SetIfGiven(IF IsNone(a.url) THEN notebook ELSE [notebook EXCEPT !.url = vurl],
                          "name", a.name),
               "description", a.description),
             "topics", a.topics),
           "content_types", a.content_types),
         "use_cases", a.use_cases),
       "tags", a.tags)
     EXCEPT !.updated_at = t]

\* update_notebook with lines 192-198 moved below line 212: the other fields are
\* assigned before validate(url) raises
UpdateValidatedLate(notebook_id, a, v, t1, t2, w) ==
    IF ~IsNone(a.url) /\ ~v.ok
    THEN /\ last' = CallUpdate("invalid_url", notebook_id, a)
         /\ notebooks' = DictSet(notebooks, notebook_id,
                                 [UpdatedFields(DictGet(notebooks, notebook_id),
                                                [a EXCEPT !.url = None], <<>>, t1)
                                  EXCEPT !.updated_at = DictGet(notebooks, notebook_id).updated_at])
         /\ UNCHANGED <<active_notebook_id, disk, clock>>
    ELSE /\ notebooks' = DictSet(notebooks, notebook_id,
                                 UpdatedFields(DictGet(notebooks, notebook_id), a, v.url, t1))
         /\ UNCHANGED active_notebook_id
         /\ Saved(notebooks', active_notebook_id, t2, w)
         /\ last' = CallUpdate("ok", notebook_id, a)

\* update_notebook after validate(url) has returned v or raised (v is not read when no url is given)
UpdateValidated(notebook_id, a, v, t1, t2, w) ==
    IF ~IsNone(a.url) /\ ~v.ok
    THEN /\ last' = CallUpdate("invalid_url", notebook_id, a)
         /\ UNCHANGED <<notebooks, active_notebook_id, disk, clock>>
    ELSE /\ notebooks' = DictSet(notebooks, notebook_id,
                                 UpdatedFields(DictGet(notebooks, notebook_id), a, v.url, t1))
         /\ UNCHANGED active_notebook_id
         /\ Saved(notebooks', active_notebook_id, t2, w)
         /\ last' = CallUpdate("ok", notebook_id, a)

\* update_notebook(notebook_id, name, description, topics, content_types, use_cases, tags, url):
\* a holds the seven optional arguments
update_notebook(notebook_id, a, t1, t2, w) ==
    IF ~DictHas(notebooks, notebook_id)
    THEN /\ last' = CallUpdate("not_found", notebook_id, a)
         /\ UNCHANGED <<notebooks, active_notebook_id, disk, clock>>
    ELSE UpdateValidated(notebook_id, a,
                         IF IsNone(a.url) THEN ValidationFailure("") ELSE Validated(Get(a.url)),
                         t1, t2, w)

\* select_notebook(notebook_id)
select_notebook(notebook_id, t, w) ==
    IF ~DictHas(notebooks, notebook_id) THEN Unchanged("select", "not_found", notebook_id)
    ELSE /\ active_notebook_id' = Some(notebook_id)
         /\ UNCHANGED notebooks
         /\ Saved(notebooks, Some(notebook_id), t, w)
         /\ last' = Call("select", "ok", notebook_id)

\* Line 296 adding 2 where the code adds 1
UsedTwice(notebook, t) == [notebook EXCEPT !.use_count = @ + 2, !.last_used = Some(t)]

\* notebook['use_count'] += 1; notebook['last_used'] = datetime.now().isoformat()
Used(notebook, t) == [notebook EXCEPT !.use_count = @ + 1, !.last_used = Some(t)]

\* increment_use_count(notebook_id)
increment_use_count(notebook_id, t1, t2, w) ==
    IF ~DictHas(notebooks, notebook_id) THEN Unchanged("increment_use", "not_found", notebook_id)
    ELSE /\ DictGet(notebooks, notebook_id).use_count < MaxUse
         /\ notebooks' = DictSet(notebooks, notebook_id, Used(DictGet(notebooks, notebook_id), t1))
         /\ UNCHANGED active_notebook_id
         /\ Saved(notebooks', active_notebook_id, t2, w)
         /\ last' = Call("increment_use", "ok", notebook_id)

(* ------------------------------ queries ------------------------------ *)

\* list(self.notebooks.values())
list_notebooks == [i \in 1..Len(notebooks) |-> notebooks[i].val]

\* ' '.join(list)
RECURSIVE Join(_)
Join(list) ==
    IF list = <<>> THEN <<>>
    ELSE IF Len(list) = 1 THEN list[1]
    ELSE list[1] \o <<" ">> \o Join(Tail(list))

\* needle in text
Contains(text, needle) ==
    \E i \in 0..(Len(text) - Len(needle)) : SubSeq(text, i + 1, i + Len(needle)) = needle

\* The list searchable without line 246, the tags
SearchableNoTags(notebook) ==
    << lower(notebook.name), lower(notebook.description),
       lower(Join(notebook.topics)), lower(Join(notebook.use_cases)) >>

\* The list searchable that search_notebooks builds for one notebook
Searchable(notebook) ==
    << lower(notebook.name), lower(notebook.description),
       lower(Join(notebook.topics)), lower(Join(notebook.tags)),
       lower(Join(notebook.use_cases)) >>

\* The loop of search_notebooks over the values still to visit
RECURSIVE SearchLoop(_, _, _)
SearchLoop(values, query_lower, results) ==
    IF values = <<>> THEN results
    ELSE SearchLoop(Tail(values), query_lower,
                    IF \E f \in DOMAIN Searchable(values[1]) :
                          Contains(Searchable(values[1])[f], query_lower)
                    THEN Append(results, values[1])
                    ELSE results)

\* search_notebooks(query)
search_notebooks(query) == SearchLoop(list_notebooks, lower(query), <<>>)

\* get_active_notebook()
get_active_notebook ==
    IF IsNone(active_notebook_id) THEN None
    ELSE IF DictHas(notebooks, Get(active_notebook_id))
    THEN Some(DictGet(notebooks, Get(active_notebook_id)))
    ELSE None

\* The loop of get_stats adding up use_count
RECURSIVE SumUseCount(_)
SumUseCount(values) ==
    IF values = <<>> THEN 0 ELSE values[1].use_count + SumUseCount(Tail(values))

\* max(...) keeping the later of two notebooks with the same use_count
RECURSIVE MaxLoopLast(_, _)
MaxLoopLast(values, best) ==
    IF values = <<>> THEN best
    ELSE MaxLoopLast(Tail(values), IF values[1].use_count >= best.use_count THEN values[1] ELSE best)

\* max(values, key=lambda n: n['use_count']): the maximum so far is replaced only
\* by a notebook with a greater key
RECURSIVE MaxLoop(_, _)
MaxLoop(values, best) ==
    IF values = <<>> THEN best
    ELSE MaxLoop(Tail(values), IF values[1].use_count > best.use_count THEN values[1] ELSE best)

\* get_stats(), without library_path
get_stats ==
    [total_notebooks |-> Len(notebooks),
     total_topics |-> Cardinality(UNION { Range(list_notebooks[i].topics) : i \in 1..Len(notebooks) }),
     total_use_count |-> SumUseCount(list_notebooks),
     active_notebook |-> get_active_notebook,
     most_used_notebook |-> IF notebooks # <<>>
                            THEN Some(MaxLoop(Tail(list_notebooks), list_notebooks[1]))
                            ELSE None]

\* A call that reads the library and returns: what it was asked and what it returned
Answered(op, query, returned) ==
    [op |-> op, result |-> "ok", on_active |-> FALSE, supplied |-> 0,
     query |-> query, returned |-> returned]

(* ------------------------------ SkillRunner --------------------------- *)

EndsWith(s, p) == Len(p) <= Len(s) /\ SubSeq(s, Len(s) - Len(p) + 1, Len(s)) = p

\* run.py: the whitelist handed to SkillRunner
ALLOWED_SCRIPTS ==
    { <<"a", "s", "k", "_", "q", "u", "e", "s", "t", "i", "o", "n", ".", "p", "y">>,
      <<"n", "o", "t", "e", "b", "o", "o", "k", "_", "m", "a", "n", "a", "g", "e", "r", ".", "p", "y">>,
      <<"s", "e", "s", "s", "i", "o", "n", "_", "m", "a", "n", "a", "g", "e", "r", ".", "p", "y">>,
      <<"a", "u", "t", "h", "_", "m", "a", "n", "a", "g", "e", "r", ".", "p", "y">>,
      <<"c", "l", "e", "a", "n", "u", "p", "_", "m", "a", "n", "a", "g", "e", "r", ".", "p", "y">> }

ScriptsPrefix == <<"s", "c", "r", "i", "p", "t", "s", "/">>
DotPy == <<".", "p", "y">>

\* validate_script, lines 74-80: a leading "scripts/" is cut off, ".py" is added if missing
NormalizedName(script_name) ==
    IF StartsWith(script_name, ScriptsPrefix)
    THEN IF EndsWith(Drop(script_name, 8), DotPy) THEN Drop(script_name, 8)
         ELSE Drop(script_name, 8) \o DotPy
    ELSE IF EndsWith(script_name, DotPy) THEN script_name
    ELSE script_name \o DotPy

\* A path as pathlib holds it: the sequence of its parts below the root
RECURSIVE SplitPath(_)
SplitPath(s) ==
    IF ~Has(s, "/") THEN <<s>>
    ELSE <<Take(s, Find(s, "/", 1) - 1)>> \o SplitPath(Drop(s, Find(s, "/", 1)))

\* Path.resolve(): "." and empty parts are dropped, ".." goes one part up
RECURSIVE ResolveFrom(_, _)
ResolveFrom(at, parts) ==
    IF parts = <<>> THEN at
    ELSE ResolveFrom(IF parts[1] = <<>> \/ parts[1] = <<".">> THEN at
                     ELSE IF parts[1] = <<".", ".">>
                     THEN (IF at = <<>> THEN at ELSE SubSeq(at, 1, Len(at) - 1))
                     ELSE Append(at, parts[1]),
                     Tail(parts))

\* str(path)
RECURSIVE PathText(_)
PathText(parts) == IF parts = <<>> THEN <<>> ELSE <<"/">> \o parts[1] \o PathText(Tail(parts))

SkillDir == << <<"s", "k", "i", "l", "l", "s">>, <<"n", "o", "t", "e", "b", "o", "o", "k", "l", "m">> >>
ScriptsDir == Append(SkillDir, <<"s", "c", "r", "i", "p", "t", "s">>)

\* (self.skill_dir / "scripts" / script_name).resolve(): an absolute name replaces the base
ScriptPath(name) ==
    IF StartsWith(name, <<"/">>) THEN ResolveFrom(<<>>, SplitPath(name))
    ELSE ResolveFrom(ScriptsDir, SplitPath(name))

\* script_path.exists(), files being the names of the files in the scripts directory
ScriptExists(path, files) ==
    /\ Len(path) = Len(ScriptsDir) + 1
    /\ SubSeq(path, 1, Len(ScriptsDir)) = ScriptsDir
    /\ path[Len(path)] \in files

\* ensure_venv: setup_script
SetupScript == Append(ScriptsDir, <<"s", "e", "t", "u", "p", "_", "e", "n", "v", "i", "r", "o", "n", "m", "e", "n", "t", ".", "p", "y">>)

Rejected == [ok |-> FALSE, path |-> <<>>]

\* validate_script without lines 83-86, the whitelist
validate_script_unlisted(script_name, files) ==
    IF ~StartsWith(PathText(ScriptPath(NormalizedName(script_name))), PathText(ScriptsDir))
    THEN Rejected
    ELSE IF ~ScriptExists(ScriptPath(NormalizedName(script_name)), files) THEN Rejected
    ELSE [ok |-> TRUE, path |-> ScriptPath(NormalizedName(script_name))]

\* validate_script(script_name): the resolved path, or sys.exit(1)
validate_script(script_name, files) ==
    IF NormalizedName(script_name) \notin ALLOWED_SCRIPTS THEN Rejected
    ELSE IF ~StartsWith(PathText(ScriptPath(NormalizedName(script_name))), PathText(ScriptsDir))
    THEN Rejected
    ELSE IF ~ScriptExists(ScriptPath(NormalizedName(script_name)), files) THEN Rejected
    ELSE [ok |-> TRUE, path |-> ScriptPath(NormalizedName(script_name))]

\* sys.exit(code), or run's return value handed to sys.exit by main
Exited(code) == [runner EXCEPT !.pc = "exited", !.exit = Some(code)]

\* run.py main() with a script name: SkillRunner("notebooklm", ALLOWED_SCRIPTS).run(...)
\* begins; files are the scripts installed, venv tells whether .venv exists
run_begin(script_name, files, venv) ==
    /\ runner.pc = "idle"
    /\ runner' = [pc |-> "validate_script", script_name |-> script_name, files |-> files,
                  venv |-> venv, script_path |-> <<>>, started |-> <<>>, exit |-> None]

\* run, line 118: script_path = self.validate_script(script_name)
run_validate ==
    /\ runner.pc = "validate_script"
    /\ runner' = IF validate_script(runner.script_name, runner.files).ok
                 THEN [runner EXCEPT !.pc = "ensure_venv",
                                     !.script_path = validate_script(runner.script_name, runner.files).path]
                 ELSE Exited(1)

\* run, line 121: ensure_venv() runs setup_environment.py when there is no .venv;
\* returncode is what the setup returns
run_ensure_venv(returncode) ==
    /\ runner.pc = "ensure_venv"
    /\ runner' = IF runner.venv THEN [runner EXCEPT !.pc = "run"]
                 ELSE IF returncode # 0
                 THEN [Exited(1) EXCEPT !.started = Append(@, [python |-> "sys.executable", script |-> SetupScript])]
                 ELSE [runner EXCEPT !.pc = "run", !.venv = TRUE,
                                     !.started = Append(@, [python |-> "sys.executable", script |-> SetupScript])]

\* run, lines 124-135: subprocess.run(cmd); outcome is "returned" with the script's
\* return code, "interrupt" for KeyboardInterrupt or "error" for any other exception
run_script(outcome, returncode) ==
    /\ runner.pc = "run"
    /\ runner' = [Exited(IF outcome = "interrupt" THEN 130
                         ELSE IF outcome = "error" THEN 1 ELSE returncode)
                  EXCEPT !.started = Append(@, [python |-> "venv", script |-> runner.script_path])]

(* ----------------------------- CleanupManager ------------------------- *)

\* Path.exists() of the entry name in directory at, and the entry itself
EntryExists(t, at, name) == \E e \in t : e.at = at /\ e.name = name
Entry(t, at, name) == CHOOSE e \in t : e.at = at /\ e.name = name

\* iterdir() lists a directory in the order the file system gives; here, in this order
NameOrder == <<"browser_state", "sessions.json", "library.json", "auth_info.json",
               "notes.txt", "cache", "state.json", "precious.txt">>
iterdir(t, at) ==
    SelectSeq([i \in 1..Len(NameOrder) |-> [at |-> at, name |-> NameOrder[i]]],
              LAMBDA p : EntryExists(t, p.at, p.name))

\* One of the files get_cleanup_paths looks for by name in the data directory
NamedFile(t, name) ==
    IF EntryExists(t, "data", name) THEN << [at |-> "data", name |-> name] >> ELSE <<>>

KnownNames == {"browser_state", "sessions.json", "library.json", "auth_info.json"}

\* get_cleanup_paths(preserve_library): the paths of the five categories in the order
\* perform_cleanup visits them, each as the directory it is in and its name. What
\* data/browser_state holds is listed through the entry, be it a directory or a link
get_cleanup_paths(t, preserve_library) ==
    IF ~EntryExists(t, "skill", "data") THEN <<>>
    ELSE (IF EntryExists(t, "data", "browser_state")
          THEN iterdir(t, Entry(t, "data", "browser_state").to)
          ELSE <<>>)
         \o NamedFile(t, "sessions.json")
         \o (IF preserve_library THEN <<>> ELSE NamedFile(t, "library.json"))
         \o NamedFile(t, "auth_info.json")
         \o SelectSeq(iterdir(t, "data"), LAMBDA p : p.name \notin KnownNames)

\* What is below a directory, links not followed
RECURSIVE Below(_, _)
Below(t, dir) ==
    { e \in t : e.at = dir }
    \cup UNION { Below(t, e.to) : e \in { f \in t : f.at = dir /\ f.kind = "dir" } }

\* shutil.rmtree(path) or path.unlink(): the file system without the entry
Deleted(t, e) == IF e.kind = "dir" THEN (t \ {e}) \ Below(t, e.to) ELSE t \ {e}

\* The loop of perform_cleanup over the paths still to visit: a path that no longer
\* exists is skipped; rmtree raises on a link, and any deletion raises for a name in
\* denied; what raises is counted in failed_count
RECURSIVE CleanupLoop(_, _, _)
CleanupLoop(paths, denied, acc) ==
    IF paths = <<>> THEN acc
    ELSE IF ~EntryExists(acc.tree, paths[1].at, paths[1].name)
    THEN CleanupLoop(Tail(paths), denied, acc)
    ELSE IF paths[1].name \in denied \/ Entry(acc.tree, paths[1].at, paths[1].name).kind = "link"
    THEN CleanupLoop(Tail(paths), denied, [acc EXCEPT !.failed_count = @ + 1])
    ELSE CleanupLoop(Tail(paths), denied,
                     [acc EXCEPT !.tree = Deleted(@, Entry(@, paths[1].at, paths[1].name)),
                                 !.deleted_count = @ + 1])

\* browser_state_dir.mkdir(parents=True, exist_ok=True)
MakeBrowserState(t) ==
    IF EntryExists(t, "data", "browser_state") THEN t
    ELSE t \cup { Directory("skill", "data", "data"),
                  Directory("data", "browser_state", "browser_state") }

\* perform_cleanup after its loop: browser_state is made again if the library was not
\* to be preserved and nothing failed
AfterLoop(acc, preserve_library) ==
    IF ~preserve_library /\ acc.failed_count = 0
    THEN [acc EXCEPT !.tree = MakeBrowserState(@)]
    ELSE acc

\* perform_cleanup(preserve_library, dry_run): the file system after the call and the
\* counts returned; a dry run returns the number of paths as would_delete
perform_cleanup(t, preserve_library, dry_run, denied) ==
    IF dry_run
    THEN [tree |-> t, deleted_count |-> 0, failed_count |-> 0,
          would_delete |-> Len(get_cleanup_paths(t, preserve_library))]
    ELSE AfterLoop(CleanupLoop(get_cleanup_paths(t, preserve_library), denied,
                               [tree |-> t, deleted_count |-> 0, failed_count |-> 0,
                                would_delete |-> 0]),
                   preserve_library)

(* --------------------------- library.json ----------------------------- *)

\* JSON values: null, strings, numbers, arrays, and objects with members in order
JNull == [type |-> "null"]
JString(x) == [type |-> "string", value |-> x]
JNumber(n) == [type |-> "number", value |-> n]
JArray(items) == [type |-> "array", items |-> items]
JObject(members) == [type |-> "object", members |-> members]

\* The member of a JSON object under a key: dict.get(key) of what json.load returns
JHas(j, k) == \E i \in 1..Len(j.members) : j.members[i].key = k
JMember(j, k) == j.members[CHOOSE i \in 1..Len(j.members) : j.members[i].key = k].val

StringFields == <<"id", "url", "name", "description">>
ListFields == <<"topics", "content_types", "use_cases", "tags">>
TimeFields == <<"created_at", "updated_at">>

EncodeList(l) == JArray([i \in 1..Len(l) |-> JString(l[i])])
EncodeOptional(o) == IF IsNone(o) THEN JNull ELSE JString(Get(o))

\* json.dump of one notebook object, its keys in the order add_notebook wrote them
EncodeNotebook(n) ==
    JObject([i \in 1..Len(StringFields) |-> [key |-> StringFields[i], val |-> JString(n[StringFields[i]])]]
            \o [i \in 1..Len(ListFields) |-> [key |-> ListFields[i], val |-> EncodeList(n[ListFields[i]])]]
            \o [i \in 1..Len(TimeFields) |-> [key |-> TimeFields[i], val |-> JString(n[TimeFields[i]])]]
            \o << [key |-> "use_count", val |-> JNumber(n.use_count)],
                  [key |-> "last_used", val |-> EncodeOptional(n.last_used)] >>)

\* json.dump(data, f): data holds notebooks, active_notebook_id and updated_at
json_dump(nb, active, t) ==
    JObject(<< [key |-> "notebooks",
                val |-> JObject([i \in 1..Len(nb) |-> [key |-> nb[i].key, val |-> EncodeNotebook(nb[i].val)]])],
               [key |-> "active_notebook_id", val |-> EncodeOptional(active)],
               [key |-> "updated_at", val |-> JString(t)] >>)

DecodeList(j) == [i \in 1..Len(j.items) |-> j.items[i].value]
DecodeOptional(j) == IF j.type = "null" THEN None ELSE Some(j.value)

\* json.load of one notebook object with use_count and last_used as they were when
\* the record was created
DecodeNotebookFresh(j) ==
    [id |-> JMember(j, "id").value, url |-> JMember(j, "url").value,
     name |-> JMember(j, "name").value, description |-> JMember(j, "description").value,
     topics |-> DecodeList(JMember(j, "topics")),
     content_types |-> DecodeList(JMember(j, "content_types")),
     use_cases |-> DecodeList(JMember(j, "use_cases")),
     tags |-> DecodeList(JMember(j, "tags")),
     created_at |-> JMember(j, "created_at").value,
     updated_at |-> JMember(j, "updated_at").value,
     use_count |-> 0, last_used |-> None]

\* json.load of one notebook object
DecodeNotebook(j) ==
    [id |-> JMember(j, "id").value, url |-> JMember(j, "url").value,
     name |-> JMember(j, "name").value, description |-> JMember(j, "description").value,
     topics |-> DecodeList(JMember(j, "topics")),
     content_types |-> DecodeList(JMember(j, "content_types")),
     use_cases |-> DecodeList(JMember(j, "use_cases")),
     tags |-> DecodeList(JMember(j, "tags")),
     created_at |-> JMember(j, "created_at").value,
     updated_at |-> JMember(j, "updated_at").value,
     use_count |-> JMember(j, "use_count").value,
     last_used |-> DecodeOptional(JMember(j, "last_used"))]

\* data.get('notebooks', {}) and data.get('active_notebook_id') of the loaded data
DecodeNotebooks(j) ==
    IF JHas(j, "notebooks")
    THEN [i \in 1..Len(JMember(j, "notebooks").members) |->
             [key |-> JMember(j, "notebooks").members[i].key,
              val |-> DecodeNotebook(JMember(j, "notebooks").members[i].val)]]
    ELSE <<>>
DecodeActive(j) ==
    IF JHas(j, "active_notebook_id") THEN DecodeOptional(JMember(j, "active_notebook_id")) ELSE None

\* The text of library.json, as the JSON value it spells
FileJSON(d) == json_dump(d.notebooks, d.active_notebook_id, d.updated_at)

\* _load_library() with the exception of lines 53-56 propagating
load_library_uncaught(d) ==
    IF d.state = "written"
    THEN [result |-> "ok", notebooks |-> DecodeNotebooks(FileJSON(d)),
          active_notebook_id |-> DecodeActive(FileJSON(d))]
    ELSE [result |-> IF d.state = "partial" THEN "raised" ELSE "ok",
          notebooks |-> <<>>, active_notebook_id |-> None]

\* _load_library(): what is in memory after it. A file that is cut short makes
\* json.load raise, which is caught; a missing file leaves the empty library
load_library(d) ==
    IF d.state = "written"
    THEN [result |-> "ok", notebooks |-> DecodeNotebooks(FileJSON(d)),
          active_notebook_id |-> DecodeActive(FileJSON(d))]
    ELSE [result |-> "ok", notebooks |-> <<>>, active_notebook_id |-> None]

\* NotebookLibrary() in a new process: _load_library(), which writes the empty
\* library when there is no library.json
new_library(t, w) ==
    /\ notebooks' = load_library(disk).notebooks
    /\ active_notebook_id' = load_library(disk).active_notebook_id
    /\ IF disk.state = "absent"
       THEN Saved(notebooks', active_notebook_id', t, w)
       ELSE UNCHANGED <<disk, clock>>
    /\ last' = [op |-> "load", result |-> load_library(disk).result, on_active |-> FALSE, supplied |-> 0]

(* ------------------------------ the library --------------------------- *)

Topics0 == << <<"t", "0">> >>
KnownIds == { DeriveId(n) : n \in AddNames }
\* The ids the calls are made with: every derived id, and one no record has
CallIds == KnownIds \cup { <<"n", "o">> }

DefaultParts == [lead |-> <<>>, scheme |-> <<>>, sep |-> <<>>, authority |-> <<>>,
                 path |-> <<>>, params |-> <<>>, query |-> <<>>, fragment |-> <<>>,
                 trail |-> <<>>]

\* The values a read of datetime.now() can return after one that returned t
Later(t, advance) == IF advance THEN t..MaxTime ELSE {t}

\* NotebookLibrary(): no library.json yet, so _load_library writes the empty library
InitLibrary(outcomes, advance) ==
    /\ notebooks = <<>>
    /\ active_notebook_id = None
    /\ \E t \in Later(0, advance), w \in outcomes :
          /\ clock = t
          /\ disk = IF w = "ok"
                    THEN [state |-> "written", notebooks |-> <<>>, active_notebook_id |-> None, updated_at |-> t]
                    ELSE IF w = "open_fails" THEN NoSnapshot ELSE PartialSnapshot
    /\ last = [op |-> "init", result |-> "ok", on_active |-> FALSE, supplied |-> 0]
    /\ url_parts = DefaultParts
    /\ url_call = None
    /\ other = [notebooks |-> <<>>, active_notebook_id |-> None]
    /\ pending = None
    /\ runner = RunnerIdle
    /\ tree = DataOnly

AddCalls(urls, names, outcomes, advance) ==
    \E url \in urls, name \in names, w \in outcomes :
    \E t1 \in Later(clock, advance) : \E t2 \in Later(t1, advance) : \E t3 \in Later(t2, advance) :
        add_notebook(url, name, Desc0, Topics0, None, None, None, t1, t2, t3, w)

RemoveCalls(ids, outcomes, advance) ==
    \E id \in ids, w \in outcomes : \E t \in Later(clock, advance) :
        remove_notebook(id, t, w)

UpdateCalls(ids, args, outcomes, advance) ==
    \E id \in ids, a \in args, w \in outcomes :
    \E t1 \in Later(clock, advance) : \E t2 \in Later(t1, advance) :
        update_notebook(id, a, t1, t2, w)

SelectCalls(ids, outcomes, advance) ==
    \E id \in ids, w \in outcomes : \E t \in Later(clock, advance) :
        select_notebook(id, t, w)

IncrementUseCalls(ids, outcomes, advance) ==
    \E id \in ids, w \in outcomes :
    \E t1 \in Later(clock, advance) : \E t2 \in Later(t1, advance) :
        increment_use_count(id, t1, t2, w)

(* Spec: the library as a whole. Every write succeeds and the clock stands still *)
(* (neither is read by what the calls do in memory); the calls range over        *)
(* colliding names, known and unknown ids, allowed and disallowed URLs.          *)

UrlOnly(u) == [NoArgs EXCEPT !.url = Some(u)]

Init == InitLibrary({"ok"}, FALSE)

Add == UNCHANGED <<urlvars, procvars, toolvars>> /\ AddCalls(LibraryURLs, AddNames, {"ok"}, FALSE)
Remove == UNCHANGED <<urlvars, procvars, toolvars>> /\ RemoveCalls(CallIds, {"ok"}, FALSE)
Update == UNCHANGED <<urlvars, procvars, toolvars>> /\ UpdateCalls(CallIds, { UrlOnly(u) : u \in LibraryURLs }, {"ok"}, FALSE)
Select == UNCHANGED <<urlvars, procvars, toolvars>> /\ SelectCalls(CallIds, {"ok"}, FALSE)
IncrementUse == UNCHANGED <<urlvars, procvars, toolvars>> /\ IncrementUseCalls(CallIds, {"ok"}, FALSE)

Next == Add \/ Remove \/ Update \/ Select \/ IncrementUse

Spec == Init /\ [][Next]_vars

NewLibraryCalls(outcomes, advance) ==
    \E w \in outcomes : \E t \in Later(clock, advance) : new_library(t, w)

(* SpecIO: the library and its file. A write of library.json may succeed, fail  *)
(* before the file is touched, or fail after it was truncated; and the process  *)
(* may end and a new one construct the library from the file.                   *)

IONames == {Name_A_b, Name_c}
IOIds == { DeriveId(n) : n \in IONames }
IOURLs == {URL_Plain}
IOUpdates == {NoArgs}

InitIO == InitLibrary(WriteOutcomes, FALSE)

AddIO == UNCHANGED <<urlvars, procvars, toolvars>> /\ AddCalls(IOURLs, IONames, WriteOutcomes, FALSE)
RemoveIO == UNCHANGED <<urlvars, procvars, toolvars>> /\ RemoveCalls(IOIds, WriteOutcomes, FALSE)
UpdateIO == UNCHANGED <<urlvars, procvars, toolvars>> /\ UpdateCalls(IOIds, IOUpdates, WriteOutcomes, FALSE)
SelectIO == UNCHANGED <<urlvars, procvars, toolvars>> /\ SelectCalls(IOIds, WriteOutcomes, FALSE)
IncrementUseIO == UNCHANGED <<urlvars, procvars, toolvars>> /\ IncrementUseCalls(IOIds, WriteOutcomes, FALSE)
RestartIO == UNCHANGED <<urlvars, procvars, toolvars>> /\ NewLibraryCalls(WriteOutcomes, FALSE)

NextIO == AddIO \/ RemoveIO \/ UpdateIO \/ SelectIO \/ IncrementUseIO \/ RestartIO

SpecIO == InitIO /\ [][NextIO]_vars

(* SpecProc: two processes on one library.json. Each holds its own library in    *)
(* memory; the one at the processor is in notebooks and active_notebook_id, the *)
(* other one in other. A write is either done in one step, or begun (the file   *)
(* is open and cut short) and finished later, the other process running between.*)

ProcNames == {Name_A_b, Name_c}
ProcIds == { DeriveId(n) : n \in ProcNames }
NoCall == [op |-> "switch", result |-> "ok", on_active |-> FALSE, supplied |-> 0]

InitProc == InitLibrary({"ok"}, FALSE)

AddProc ==
    /\ pending = None
    /\ UNCHANGED <<urlvars, procvars, toolvars>>
    /\ AddCalls({URL_Plain}, ProcNames, {"ok"}, FALSE)
RemoveProc ==
    /\ pending = None
    /\ UNCHANGED <<urlvars, procvars, toolvars>>
    /\ RemoveCalls(ProcIds, {"ok"}, FALSE)
SelectProc ==
    /\ pending = None
    /\ UNCHANGED <<urlvars, procvars, toolvars>>
    /\ SelectCalls(ProcIds, {"ok"}, FALSE)

\* A call whose _save_library() has opened library.json and not yet finished json.dump
BeginWriteProc ==
    /\ pending = None
    /\ UNCHANGED <<urlvars, other, toolvars>>
    /\ \/ AddCalls({URL_Plain}, ProcNames, {"in_progress"}, FALSE)
       \/ RemoveCalls(ProcIds, {"in_progress"}, FALSE)
    /\ disk' # disk
    /\ pending' = Some([by_other |-> FALSE, before |-> disk,
                        after |-> save_library(notebooks', active_notebook_id', clock', "ok")])

\* json.dump finishes and the file is closed
FinishWriteProc ==
    /\ ~IsNone(pending) /\ ~Get(pending).by_other
    /\ disk' = Get(pending).after
    /\ pending' = None
    /\ UNCHANGED <<notebooks, active_notebook_id, clock, last, urlvars, other, toolvars>>

\* The process at the processor ends and a new one constructs its library
LoadProc ==
    /\ IF IsNone(pending) THEN TRUE ELSE Get(pending).by_other
    /\ UNCHANGED <<urlvars, procvars, toolvars>>
    /\ NewLibraryCalls({"ok"}, FALSE)

\* The other process gets the processor
SwitchProc ==
    /\ notebooks' = other.notebooks
    /\ active_notebook_id' = other.active_notebook_id
    /\ other' = [notebooks |-> notebooks, active_notebook_id |-> active_notebook_id]
    /\ pending' = IF IsNone(pending) THEN None
                  ELSE Some([Get(pending) EXCEPT !.by_other = ~@])
    /\ last' = NoCall
    /\ UNCHANGED <<disk, clock, urlvars, toolvars>>

NextProc ==
    AddProc \/ RemoveProc \/ SelectProc \/ BeginWriteProc \/ FinishWriteProc \/ LoadProc \/ SwitchProc

SpecProc == InitProc /\ [][NextProc]_vars

(* SpecRecord: one record in detail. update is called with none, some and all  *)
(* of its optional arguments, with allowed and disallowed URLs, while the clock *)
(* advances and a second record, which is added and removed, stands by.        *)

Topics1 == << <<"t", "1">> >>
Tags0 == << <<"g", "0">> >>
RecordNames == {Name_A_b, Name_c}
RecordIds == { DeriveId(Name_A_b), <<"n", "o">> }

NameAndTopics == [NoArgs EXCEPT !.name = Some(Name_New), !.topics = Some(Topics1)]
AllArgs(u) == [name |-> Some(Name_New), description |-> Some(Desc1), topics |-> Some(Topics1),
               content_types |-> Some(<< <<"c", "1">> >>), use_cases |-> Some(<< <<"u", "1">> >>),
               tags |-> Some(<<>>), url |-> Some(u)]
UpdateArgs == {NoArgs, NameAndTopics, UrlOnly(URL_Messy), UrlOnly(URL_Fragment),
               AllArgs(URL_Messy), AllArgs(URL_Evil)}

InitRecord == InitLibrary({"ok"}, TRUE)

AddRecord ==
    /\ UNCHANGED <<urlvars, procvars, toolvars>>
    /\ \E name \in RecordNames :
       \E t1 \in Later(clock, TRUE) : \E t2 \in Later(t1, TRUE) : \E t3 \in Later(t2, TRUE) :
          add_notebook(URL_Plain, name, Desc0, Topics0, None, None, Some(Tags0), t1, t2, t3, "ok")
UpdateRecord == UNCHANGED <<urlvars, procvars, toolvars>> /\ UpdateCalls(RecordIds, UpdateArgs, {"ok"}, TRUE)
IncrementUseRecord == UNCHANGED <<urlvars, procvars, toolvars>> /\ IncrementUseCalls(RecordIds, {"ok"}, TRUE)
RemoveRecord == UNCHANGED <<urlvars, procvars, toolvars>> /\ RemoveCalls({DeriveId(Name_c)}, {"ok"}, TRUE)
SelectRecord == UNCHANGED <<urlvars, procvars, toolvars>> /\ SelectCalls(RecordIds, {"ok"}, TRUE)

NextRecord == AddRecord \/ UpdateRecord \/ IncrementUseRecord \/ RemoveRecord \/ SelectRecord

SpecRecord == InitRecord /\ [][NextRecord]_vars

(* SpecQuery: the library read. Two records are added, changed, used and        *)
(* removed in either order, and search and get_stats are called in between.    *)

Topics2 == << <<"t", "0">>, <<"T", "1">> >>
UseCases1 == << <<"u", "1">> >>
Retagged == [NoArgs EXCEPT !.topics = Some(Topics2), !.use_cases = Some(UseCases1), !.tags = Some(<<>>)]

Query_Empty == <<>>
Query_Tag == <<"G", "0">>
Query_Name == <<"c">>
Query_UseCase == <<"u", "1">>
Query_AcrossTopics == <<"0", " ", "t">>
Query_AcrossFields == <<"b", " ", "d">>
Query_Nothing == <<"z", "z">>
Queries == {Query_Empty, Query_Tag, Query_Name, Query_UseCase, Query_AcrossTopics,
            Query_AcrossFields, Query_Nothing}

QueryNames == {Name_A_b, Name_c}
QueryIds == { DeriveId(n) : n \in QueryNames }

InitQuery == InitLibrary({"ok"}, FALSE)

AddQuery ==
    /\ UNCHANGED <<urlvars, procvars, toolvars>>
    /\ \E name \in QueryNames :
          add_notebook(URL_Plain, name, Desc0, Topics0, None, None, Some(Tags0), clock, clock, clock, "ok")
UpdateQuery == UNCHANGED <<urlvars, procvars, toolvars>> /\ UpdateCalls(QueryIds, {Retagged}, {"ok"}, FALSE)
IncrementUseQuery == UNCHANGED <<urlvars, procvars, toolvars>> /\ IncrementUseCalls(QueryIds, {"ok"}, FALSE)
RemoveQuery == UNCHANGED <<urlvars, procvars, toolvars>> /\ RemoveCalls(QueryIds, {"ok"}, FALSE)
SearchQuery ==
    /\ \E query \in Queries : last' = Answered("search", query, search_notebooks(query))
    /\ UNCHANGED <<notebooks, active_notebook_id, disk, clock, urlvars, procvars, toolvars>>
StatsQuery ==
    /\ last' = Answered("get_stats", <<>>, get_stats)
    /\ UNCHANGED <<notebooks, active_notebook_id, disk, clock, urlvars, procvars, toolvars>>

NextQuery == AddQuery \/ UpdateQuery \/ IncrementUseQuery \/ RemoveQuery \/ SearchQuery \/ StatsQuery

SpecQuery == InitQuery /\ [][NextQuery]_vars

(* SpecRunner: run.py is called, again and again, with script names that are    *)
(* and are not in the whitelist, with and without a virtual environment, with   *)
(* all the scripts installed or only some.                                      *)

ScriptNames ==
    { <<"n", "o", "t", "e", "b", "o", "o", "k", "_", "m", "a", "n", "a", "g", "e", "r", ".", "p", "y">>,
      <<"s", "c", "r", "i", "p", "t", "s", "/", "n", "o", "t", "e", "b", "o", "o", "k", "_", "m", "a", "n", "a", "g", "e", "r", ".", "p", "y">>,
      <<"c", "l", "e", "a", "n", "u", "p", "_", "m", "a", "n", "a", "g", "e", "r">>,
      <<"s", "e", "s", "s", "i", "o", "n", "_", "m", "a", "n", "a", "g", "e", "r", ".", "p", "y">>,
      <<"r", "u", "n", ".", "p", "y">>,
      <<"s", "c", "r", "i", "p", "t", "s", "/", "r", "u", "n">>,
      <<".", ".", "/", "s", "c", "r", "i", "p", "t", "s", "/", "r", "u", "n", ".", "p", "y">>,
      <<"s", "c", "r", "i", "p", "t", "s", "/", "s", "c", "r", "i", "p", "t", "s", "/", "n", "o", "t", "e", "b", "o", "o", "k", "_", "m", "a", "n", "a", "g", "e", "r", ".", "p", "y">>,
      <<"/", "b", "i", "n", "/", "s", "h">> }
InstalledScripts == { ALLOWED_SCRIPTS \cup { <<"r", "u", "n", ".", "p", "y">> },
                      { <<"n", "o", "t", "e", "b", "o", "o", "k", "_", "m", "a", "n", "a", "g", "e", "r", ".", "p", "y">>, <<"c", "l", "e", "a", "n", "u", "p", "_", "m", "a", "n", "a", "g", "e", "r", ".", "p", "y">>, <<"r", "u", "n", ".", "p", "y">> } }
ReturnCodes == {0, 1, 2}

InitRunner == InitLibrary({"ok"}, FALSE)

RunBegin ==
    /\ \E script_name \in ScriptNames, files \in InstalledScripts, venv \in BOOLEAN :
          run_begin(script_name, files, venv)
    /\ UNCHANGED <<notebooks, active_notebook_id, disk, clock, last, urlvars, procvars, tree>>
RunValidate ==
    /\ run_validate
    /\ UNCHANGED <<notebooks, active_notebook_id, disk, clock, last, urlvars, procvars, tree>>
RunEnsureVenv ==
    /\ \E returncode \in ReturnCodes : run_ensure_venv(returncode)
    /\ UNCHANGED <<notebooks, active_notebook_id, disk, clock, last, urlvars, procvars, tree>>
RunScript ==
    /\ \E outcome \in {"returned", "interrupt", "error"}, returncode \in ReturnCodes :
          run_script(outcome, returncode)
    /\ UNCHANGED <<notebooks, active_notebook_id, disk, clock, last, urlvars, procvars, tree>>
\* The process has ended; run.py can be called again
RunEnd ==
    /\ runner.pc = "exited"
    /\ runner' = RunnerIdle
    /\ UNCHANGED <<notebooks, active_notebook_id, disk, clock, last, urlvars, procvars, tree>>

NextRunner == RunBegin \/ RunValidate \/ RunEnsureVenv \/ RunScript \/ RunEnd

SpecRunner == InitRunner /\ [][NextRunner]_vars

(* SpecClean: perform_cleanup is called on data directories that hold or lack    *)
(* each of the files it knows, where browser_state is missing, a directory, or  *)
(* a link to the data directory or to a directory outside, and is called again. *)

BrowserStates ==
    { {},
      { Directory("data", "browser_state", "browser_state") },
      { Directory("data", "browser_state", "browser_state"),
        File("browser_state", "state.json") },
      { Link("data", "browser_state", "data") },
      { Link("data", "browser_state", "outside") } }
Others == { {}, { File("data", "notes.txt") }, { Link("data", "cache", "outside") } }
Trees ==
    { DataOnly \cup { File("outside", "precious.txt") } \cup b \cup o \cup l \cup s :
        b \in BrowserStates, o \in Others,
        l \in { {}, { File("data", "library.json") } },
        s \in { {}, { File("data", "sessions.json") } } }

InitClean ==
    /\ tree \in Trees
    /\ runner = RunnerIdle
    /\ notebooks = <<>>
    /\ active_notebook_id = None
    /\ disk = NoSnapshot
    /\ clock = 0
    /\ last = [op |-> "init", result |-> "ok", on_active |-> FALSE, supplied |-> 0]
    /\ url_parts = DefaultParts
    /\ url_call = None
    /\ other = [notebooks |-> <<>>, active_notebook_id |-> None]
    /\ pending = None

PerformCleanup ==
    /\ \E preserve_library \in BOOLEAN, dry_run \in BOOLEAN, denied \in { {}, {"sessions.json"} } :
          /\ tree' = perform_cleanup(tree, preserve_library, dry_run, denied).tree
          /\ last' = Answered("perform_cleanup",
                              [preserve_library |-> preserve_library, dry_run |-> dry_run],
                              [perform_cleanup(tree, preserve_library, dry_run, denied)
                               EXCEPT !.tree = {}])
    /\ UNCHANGED <<notebooks, active_notebook_id, disk, clock, urlvars, procvars, runner>>

\* The skill at work writes library.json or sessions.json into the data directory
SkillWrites ==
    /\ \E name \in {"library.json", "sessions.json"} :
          /\ ~EntryExists(tree, "data", name)
          /\ tree' = tree \cup { Directory("skill", "data", "data"), File("data", name) }
    /\ last' = Answered("write", <<>>, <<>>)
    /\ UNCHANGED <<notebooks, active_notebook_id, disk, clock, urlvars, procvars, runner>>

NextClean == PerformCleanup \/ SkillWrites

SpecClean == InitClean /\ [][NextClean]_vars

(* SpecURL: the validator alone. The string handed to it is drawn part by part, *)
(* so that what its authority, path and fragment are is known by construction;  *)
(* then validate or is_valid is called on it once.                              *)

SchemeSep == <<":", "/", "/">>
Authority_EvilSuffix == ALLOWED_DOMAIN \o <<".", "e", "v", "i", "l", ".", "c", "o", "m">>
Authority_EvilPrefix == <<"e", "v", "i", "l", "-">> \o ALLOWED_DOMAIN
Authority_Credentials == <<"u", ":", "p", "@">> \o ALLOWED_DOMAIN
Authority_Port == ALLOWED_DOMAIN \o <<":", "4", "4", "3">>
Authority_Tab == <<"n", "o", "t", "e", "\t">> \o Drop(ALLOWED_DOMAIN, 4)
Authority_Upper == <<"N">> \o Drop(ALLOWED_DOMAIN, 1)
Authority_Bracket == <<"[">> \o ALLOWED_DOMAIN
Authorities == {ALLOWED_DOMAIN, Authority_EvilSuffix, Authority_EvilPrefix,
                Authority_Credentials, Authority_Port, Authority_Tab,
                Authority_Upper, Authority_Bracket}

Schemes == {ALLOWED_SCHEME, <<"H", "T", "T", "P", "S">>, <<"h", "t", "t", "p">>}

\* The id segment: every string of at most MaxIdLen characters over IdAlphabet
IdAlphabet == {"f", "0", "-", "g", "A"}
RECURSIVE IdsOfLen(_)
IdsOfLen(n) == IF n = 0 THEN { <<>> } ELSE { Append(i, c) : i \in IdsOfLen(n - 1), c \in IdAlphabet }
Ids == UNION { IdsOfLen(n) : n \in 0..MaxIdLen }

Pads == { <<>>, <<" ">> }
Tails == { <<>>, <<"/", "x">> }
ParamsParts == { <<>>, <<";", "p">> }
QueryParts == { <<>>, <<"?", "q">> }
FragmentParts == { <<>>, <<"#">>, <<"#", "f">> }

URLParts ==
    { [lead |-> pad, scheme |-> scheme, sep |-> SchemeSep, authority |-> authority,
       path |-> NotebookPrefix \o id \o tail, params |-> params, query |-> query,
       fragment |-> fragment, trail |-> pad] :
        pad \in Pads, scheme \in Schemes, authority \in Authorities, id \in Ids,
        tail \in Tails, params \in ParamsParts, query \in QueryParts,
        fragment \in FragmentParts }

\* Strings that are no URL at all: the empty string, blanks only, a bare host and path
NonURLParts ==
    { DefaultParts,
      [DefaultParts EXCEPT !.lead = <<" ">>, !.trail = <<" ", "\t">>],
      [DefaultParts EXCEPT !.authority = ALLOWED_DOMAIN, !.path = NotebookPrefix \o <<"f", "0">>] }

\* Allowed URLs whose path ends in a space that an empty query or fragment follows
SpaceEndedParts ==
    { [DefaultParts EXCEPT !.scheme = ALLOWED_SCHEME, !.sep = SchemeSep,
                           !.authority = ALLOWED_DOMAIN,
                           !.path = NotebookPrefix \o <<"f", "0", "/", " ">>,
                           !.query = query, !.fragment = fragment] :
        query \in { <<>>, <<"?">> }, fragment \in { <<>>, <<"#">> } }

\* The string the parts spell
Assemble(p) ==
    p.lead \o p.scheme \o p.sep \o p.authority \o p.path \o p.params \o p.query
           \o p.fragment \o p.trail

InitURL ==
    /\ url_parts \in URLParts \cup NonURLParts \cup SpaceEndedParts
    /\ url_call = None
    /\ other = [notebooks |-> <<>>, active_notebook_id |-> None]
    /\ pending = None
    /\ runner = RunnerIdle
    /\ tree = DataOnly
    /\ notebooks = <<>>
    /\ active_notebook_id = None
    /\ disk = NoSnapshot
    /\ clock = 0
    /\ last = [op |-> "init", result |-> "ok", on_active |-> FALSE, supplied |-> 0]

\* validate(url) is called: it returns the normalized URL or raises URLValidationError
CallValidate ==
    /\ url_call = None
    /\ url_call' = Some([fn |-> "validate"] @@ validate(Assemble(url_parts)))
    /\ UNCHANGED <<url_parts, notebooks, active_notebook_id, disk, clock, last, procvars, toolvars>>

\* is_valid(url) is called: it returns a boolean
CallIsValid ==
    /\ url_call = None
    /\ url_call' = Some([fn |-> "is_valid", ok |-> is_valid(Assemble(url_parts)),
                         reason |-> "", url |-> <<>>])
    /\ UNCHANGED <<url_parts, notebooks, active_notebook_id, disk, clock, last, procvars, toolvars>>

NextURL == CallValidate \/ CallIsValid

SpecURL == InitURL /\ [][NextURL]_vars

(* ------------------------------ properties ---------------------------- *)

\* C1: in every state reached from the empty library by add, update, remove, select
\* and increment_use calls, successful or failing, active_notebook_id is null or a
\* key present in notebooks.
ActiveIsPresent ==
    IsNone(active_notebook_id) \/ DictHas(notebooks, Get(active_notebook_id))

\* The active record was removed while others remained, and another one is active
ActiveRemovedAndReplaced ==
    /\ last.op = "remove" /\ last.result = "ok" /\ last.on_active
    /\ ~IsNone(active_notebook_id)

\* C2: an add whose name derives an id that is already a key fails, and notebooks,
\* active_notebook_id and library.json are what they were before the call.
DuplicateAddChangesNothing ==
    [][\/ /\ last'.op = "add" /\ last'.result \in {"duplicate", "invalid_url"}
          /\ notebooks' = notebooks
          /\ active_notebook_id' = active_notebook_id
          /\ disk' = disk
       \/ last'.op # "add"
       \/ \A name \in AddNames, url \in LibraryURLs, w \in WriteOutcomes :
             DictHas(notebooks, DeriveId(name))
             => ~add_notebook(url, name, Desc0, Topics0, None, None, None,
                              clock', clock', clock', w)]_vars

\* An add was refused as a duplicate: "a_b" after "A b", or the other way round
DuplicateAddRefused ==
    /\ last.op = "add" /\ last.result = "duplicate"
    /\ DictHas(notebooks, DeriveId(Name_a_b))
    /\ DictGet(notebooks, DeriveId(Name_a_b)).name \in {Name_A_b, Name_a_b}

\* C3: removing the active id makes the first remaining key active, or null when
\* nothing remains; removing another present id leaves active_notebook_id as it was.
RemoveRepointsActive ==
    [][\A id \in CallIds, w \in WriteOutcomes :
         (last'.op = "remove" /\ DictHas(notebooks, id) /\ remove_notebook(id, clock', w))
         => IF active_notebook_id = Some(id)
            THEN active_notebook_id' =
                     IF Len(notebooks') > 0 THEN Some(notebooks'[1].key) ELSE None
            ELSE active_notebook_id' = active_notebook_id]_vars

\* The active record was removed with two others remaining, the first of them now active
ActiveRemovedAmongThree ==
    /\ last.op = "remove" /\ last.result = "ok" /\ last.on_active
    /\ Len(notebooks) = 2
    /\ active_notebook_id = Some(notebooks[1].key)

(* The allowed-URL contract, read off a URL as text: the scheme ends at "://",  *)
(* the authority at the next "/", "?" or "#", the path at the next "?" or "#",  *)
(* and a fragment is what follows a "#".                                        *)

\* The length of the longest prefix of s holding no character of set
PrefixFreeOf(s, set) ==
    IF \E i \in 1..Len(s) : s[i] \in set
    THEN (CHOOSE i \in 1..Len(s) : s[i] \in set /\ \A j \in 1..(i - 1) : s[j] \notin set) - 1
    ELSE Len(s)

AfterScheme(u) == Drop(u, Len(ALLOWED_SCHEME \o SchemeSep))
AuthorityOf(u) == Take(AfterScheme(u), PrefixFreeOf(AfterScheme(u), {"/", "?", "#"}))
AfterAuthority(u) == Drop(AfterScheme(u), Len(AuthorityOf(u)))
PathOf(u) == Take(AfterAuthority(u), PrefixFreeOf(AfterAuthority(u), {"?", "#"}))

AllowedURL(u) ==
    /\ StartsWith(u, ALLOWED_SCHEME \o SchemeSep)
    /\ AuthorityOf(u) = ALLOWED_DOMAIN
    /\ MatchesValidPath(PathOf(u))
    /\ ~Has(u, "#")

\* C4: in every state reached from the empty library by add and update calls with
\* any url arguments, every stored record's url satisfies the allowed-URL contract:
\* scheme https, host exactly notebooklm.google.com, path /notebook/<id> with an id
\* of a-f, 0-9 and hyphens, optionally followed by "/" and anything, no fragment.
StoredURLsAllowed ==
    \A i \in 1..Len(notebooks) : AllowedURL(notebooks[i].val.url)

TabCRLF == {"\t", "\r", "\n"}
ValidateCalled == ~IsNone(url_call) /\ Get(url_call).fn = "validate"
IsValidCalled == ~IsNone(url_call) /\ Get(url_call).fn = "is_valid"

\* C5 as stated: validate rejects every string whose authority is not exactly
\* notebooklm.google.com.
ForeignAuthorityRejected ==
    (ValidateCalled /\ url_parts.authority # ALLOWED_DOMAIN) => ~Get(url_call).ok

\* C5: validate rejects every string whose authority, once the tabs, carriage returns
\* and line feeds that URL parsing discards are removed, is not exactly
\* notebooklm.google.com; and the URL it returns has exactly that authority.
CleanedForeignAuthorityRejected ==
    ValidateCalled =>
        /\ RemoveChars(url_parts.authority, TabCRLF) # ALLOWED_DOMAIN => ~Get(url_call).ok
        /\ Get(url_call).ok => AuthorityOf(Get(url_call).url) = ALLOWED_DOMAIN

\* A URL that is allowed but for the host notebooklm.google.com.evil.com was rejected
EvilSuffixRejected ==
    /\ ValidateCalled /\ ~Get(url_call).ok
    /\ url_parts.authority = Authority_EvilSuffix
    /\ url_parts.scheme = ALLOWED_SCHEME /\ url_parts.lead = <<>>
    /\ url_parts.path = NotebookPrefix \o <<"f", "0">>
    /\ url_parts.params = <<>> /\ url_parts.query = <<>> /\ url_parts.fragment = <<>>

\* What the contract says of a string, part by part: the scheme compared without
\* regard to case, tabs, carriage returns and line feeds disregarded, the path taken
\* with its parameters, a bare "#" counted as no fragment
AllowedParts(p) ==
    /\ p.sep = SchemeSep
    /\ lower(p.scheme) = ALLOWED_SCHEME
    /\ RemoveChars(p.authority, TabCRLF) = ALLOWED_DOMAIN
    /\ MatchesValidPath(p.path \o p.params)
    /\ p.fragment \in { <<>>, <<"#">> }

\* C6: validate succeeds if and only if the trimmed input is non-empty, has the
\* scheme https, the host notebooklm.google.com, a path matching
\* /notebook/[a-f0-9-]+(/.*)? and no fragment, whatever its query.
ValidateIffAllowed ==
    ValidateCalled => (Get(url_call).ok <=> AllowedParts(url_parts))

\* C7 as stated: is_valid is false of every string that does not start with
\* https://notebooklm.google.com/notebook/.
OtherPrefixInvalid ==
    (IsValidCalled /\ ~StartsWith(Assemble(url_parts), NotebookBase)) => ~Get(url_call).ok

\* The string as URL parsing reads it: surrounding blanks trimmed, tabs, carriage
\* returns and line feeds removed, the scheme in lower case
Canonical(s) ==
    lower(Take(RemoveChars(strip(s), TabCRLF), Len(ALLOWED_SCHEME)))
        \o Drop(RemoveChars(strip(s), TabCRLF), Len(ALLOWED_SCHEME))

\* C7: is_valid is false of every string that, with surrounding blanks trimmed, tabs,
\* carriage returns and line feeds removed and the scheme lower-cased, does not start
\* with https://notebooklm.google.com/notebook/.
OtherCanonicalPrefixInvalid ==
    (IsValidCalled /\ ~StartsWith(Canonical(Assemble(url_parts)), NotebookBase))
        => ~Get(url_call).ok

\* is_valid returned false for a URL that is allowed but for its scheme, http
HttpSchemeInvalid ==
    /\ IsValidCalled /\ ~Get(url_call).ok
    /\ url_parts.scheme = <<"h", "t", "t", "p">>
    /\ url_parts.authority = ALLOWED_DOMAIN /\ url_parts.lead = <<>>
    /\ url_parts.path = NotebookPrefix \o <<"f", "0">>
    /\ url_parts.params = <<>> /\ url_parts.query = <<>> /\ url_parts.fragment = <<>>

\* C8: an update of an existing id with a url that fails validation raises and
\* changes no field of the record, nor library.json, whatever else was supplied.
InvalidURLUpdateChangesNothing ==
    [][\/ last'.op # "update"
       \/ \A id \in RecordIds, a \in UpdateArgs, t1 \in Times, w \in WriteOutcomes :
             (/\ DictHas(notebooks, id)
              /\ ~IsNone(a.url) /\ ~Validated(Get(a.url)).ok
              /\ update_notebook(id, a, t1, clock', w))
             => (/\ last'.result = "invalid_url"
                 /\ notebooks' = notebooks
                 /\ active_notebook_id' = active_notebook_id
                 /\ disk' = disk)]_vars

\* An update that supplied all seven arguments, the url a disallowed one, was refused
FullUpdateRefused ==
    /\ last.op = "update" /\ last.result = "invalid_url" /\ last.supplied = 7
    /\ DictHas(notebooks, DeriveId(Name_A_b))
    /\ DictGet(notebooks, DeriveId(Name_A_b)).name = Name_A_b

UpdatableFields == {"name", "description", "topics", "content_types", "use_cases", "tags"}
FixedFields == {"id", "created_at", "use_count", "last_used"}

\* new is old with the supplied arguments of a, the validated url and updated_at = t
OnlySuppliedChanged(old, new, a, t) ==
    /\ DOMAIN new = DOMAIN old
    /\ \A f \in FixedFields : new[f] = old[f]
    /\ \A f \in UpdatableFields : new[f] = IF IsNone(a[f]) THEN old[f] ELSE Get(a[f])
    /\ new.url = IF IsNone(a.url) THEN old.url ELSE Validated(Get(a.url)).url
    /\ new.updated_at = t

\* C9: a successful update sets the supplied fields and updated_at and nothing else:
\* omitted fields, id, created_at, use_count, last_used, the other records and
\* active_notebook_id are what they were.
UpdateChangesOnlySupplied ==
    [][\/ last'.op # "update"
       \/ last'.result # "ok"
       \/ \A id \in RecordIds, a \in UpdateArgs, t1 \in Times, w \in WriteOutcomes :
             update_notebook(id, a, t1, clock', w)
             => (/\ DictKeys(notebooks') = DictKeys(notebooks)
                 /\ active_notebook_id' = active_notebook_id
                 /\ \A i \in 1..Len(notebooks) :
                        notebooks[i].key # id => notebooks'[i] = notebooks[i]
                 /\ OnlySuppliedChanged(DictGet(notebooks, id), DictGet(notebooks', id), a, t1))]_vars

\* A used record was given a new name and new topics, and nothing else, beside another
PartialUpdateDone ==
    /\ last.op = "update" /\ last.result = "ok" /\ last.supplied = 2
    /\ DictHas(notebooks, DeriveId(Name_A_b)) /\ DictHas(notebooks, DeriveId(Name_c))
    /\ DictGet(notebooks, DeriveId(Name_A_b)).name = Name_New
    /\ DictGet(notebooks, DeriveId(Name_A_b)).description = Desc0
    /\ DictGet(notebooks, DeriveId(Name_A_b)).use_count = 1

\* C10: whenever add, update, remove, select or increment_use returns successfully,
\* library.json holds one whole snapshot whose notebooks and active_notebook_id are
\* those in memory.
SnapshotEqualsMemory ==
    (last.op \in {"add", "update", "remove", "select", "increment_use"} /\ last.result = "ok")
    => /\ disk.state = "written"
       /\ disk.notebooks = notebooks
       /\ disk.active_notebook_id = active_notebook_id

FailedWrites == WriteOutcomes \ {"ok"}

\* C11: when the write of library.json fails during add, update, remove, select or
\* increment_use, the call does not report success unless library.json holds the
\* library as it is in memory after the call.
WriteFailureSurfaced ==
    [][(\/ AddCalls(IOURLs, IONames, FailedWrites, FALSE)
        \/ RemoveCalls(IOIds, FailedWrites, FALSE)
        \/ UpdateCalls(IOIds, IOUpdates, FailedWrites, FALSE)
        \/ SelectCalls(IOIds, FailedWrites, FALSE)
        \/ IncrementUseCalls(IOIds, FailedWrites, FALSE))
       => (\/ last'.result # "ok"
           \/ /\ disk'.state = "written"
              /\ disk'.notebooks = notebooks'
              /\ disk'.active_notebook_id = active_notebook_id')]_vars

\* C12: a library state that was saved and is then loaded by a new library from the
\* same library.json comes back with the same records under the same keys and the
\* same active_notebook_id.
SaveLoadRoundTrip ==
    [][(/\ last'.op = "load"
        /\ disk.state = "written"
        /\ disk.notebooks = notebooks
        /\ disk.active_notebook_id = active_notebook_id)
       => (notebooks' = notebooks /\ active_notebook_id' = active_notebook_id)]_vars

\* A library of two records, one of them used and one active, was loaded from its file
UsedLibraryLoaded ==
    /\ last.op = "load" /\ last.result = "ok"
    /\ Len(notebooks) = 2
    /\ ~IsNone(active_notebook_id)
    /\ \E i \in 1..2 : notebooks[i].val.use_count = 1 /\ ~IsNone(notebooks[i].val.last_used)
    /\ disk.state = "written" /\ disk.notebooks = notebooks

\* C13: constructing the library when library.json is missing or cut short does not
\* fail and leaves no notebooks and a null active_notebook_id.
LoadOfNothingIsEmpty ==
    [][(last'.op = "load" /\ disk.state \in {"absent", "partial"})
       => (last'.result = "ok" /\ notebooks' = <<>> /\ active_notebook_id' = None)]_vars

\* library.json was cut short by a failed write, and a new process then constructed the library
TruncatedFileLoaded ==
    /\ last.op = "load" /\ last.result = "ok"
    /\ disk.state = "partial"
    /\ notebooks = <<>> /\ IsNone(active_notebook_id)

\* C14: a process that loads the library while another process is writing library.json
\* never sees a partly written file: what it loads is the whole snapshot from before
\* the write or the whole snapshot the write is producing
LoadSeesWholeSnapshot ==
    [][(last'.op = "load" /\ ~IsNone(pending))
       => \E s \in {Get(pending).before, Get(pending).after} :
             /\ notebooks' = s.notebooks
             /\ active_notebook_id' = s.active_notebook_id]_vars

KeyIsRecordId ==
    \A i \in 1..Len(notebooks) : notebooks[i].key = notebooks[i].val.id

\* A record was given a new name by update and is still under the key, and has the id,
\* that add derived from its first name
RenamedRecordUnderOldKey ==
    /\ last.op = "update" /\ last.result = "ok"
    /\ DictHas(notebooks, DeriveId(Name_A_b))
    /\ DictGet(notebooks, DeriveId(Name_A_b)).name = Name_New
    /\ DictGet(notebooks, DeriveId(Name_A_b)).id # DeriveId(Name_New)

\* C17: remove of an id that is not in the library returns false and changes nothing,
\* in memory or in library.json, and writes nothing; remove of an id that is in the
\* library returns true and library.json then holds the library without that record
RemoveAbsentNothingPresentPersisted ==
    [][last'.op # "remove"
       \/ \A id \in IOIds, w \in WriteOutcomes :
             remove_notebook(id, clock, w)
             => IF DictHas(notebooks, id)
                THEN /\ last'.result = "ok"
                     /\ ~DictHas(notebooks', id)
                     /\ disk'.state = "written"
                     /\ disk'.notebooks = notebooks'
                     /\ disk'.active_notebook_id = active_notebook_id'
                ELSE /\ last'.result = "returned_false"
                     /\ UNCHANGED <<notebooks, active_notebook_id, disk>>]_vars

\* The key add has just stored its record under: a new key goes last
AddedId == DictKeys(notebooks')[Len(notebooks')]

\* C18: a successful add makes the new record the active one exactly when the library
\* was empty before the call; a successful add into a library that holds records
\* leaves active_notebook_id as it was
AddActivatesOnlyFirst ==
    [][(last'.op = "add" /\ last'.result = "ok")
       => /\ (active_notebook_id' = Some(AddedId)) <=> (Len(notebooks) = 0)
          /\ Len(notebooks) # 0 => active_notebook_id' = active_notebook_id]_vars

\* A third record was added and the first one is still the active one
ThirdAddedFirstActive ==
    /\ last.op = "add" /\ last.result = "ok"
    /\ Len(notebooks) = 3
    /\ active_notebook_id = Some(notebooks[1].key)

\* C19: the record a successful add has created has created_at equal to updated_at,
\* use_count 0 and last_used null
AddedRecordStampedOnce ==
    [][(last'.op = "add" /\ last'.result = "ok")
       => /\ DictGet(notebooks', AddedId).created_at = DictGet(notebooks', AddedId).updated_at
          /\ DictGet(notebooks', AddedId).use_count = 0
          /\ DictGet(notebooks', AddedId).last_used = None]_vars

\* use_count and last_used of the record under key k are what they were before the step;
\* a record that was not there before has use_count 0 and last_used null
UseKept(k) ==
    IF DictHas(notebooks, k)
    THEN /\ DictGet(notebooks', k).use_count = DictGet(notebooks, k).use_count
         /\ DictGet(notebooks', k).last_used = DictGet(notebooks, k).last_used
    ELSE /\ DictGet(notebooks', k).use_count = 0
         /\ DictGet(notebooks', k).last_used = None

SelectAbsentNothingPresentPersisted ==
    [][last'.op # "select"
       \/ \A id \in IOIds, w \in WriteOutcomes :
             select_notebook(id, clock, w)
             => IF DictHas(notebooks, id)
                THEN /\ last'.result = "ok"
                     /\ active_notebook_id' = Some(id)
                     /\ notebooks' = notebooks
                     /\ disk'.state = "written"
                     /\ disk'.notebooks = notebooks'
                     /\ disk'.active_notebook_id = Some(id)
                ELSE /\ last'.result = "not_found"
                     /\ UNCHANGED <<notebooks, active_notebook_id, disk>>]_vars

\* What a call that ended with the given result raised: the class of the exception and
\* the words its message begins with; nothing for a call that returned
Raised(result) ==
    IF result = "invalid_url"
    THEN Some([type |-> "ValueError", message |-> "Invalid NotebookLM URL: "])
    ELSE IF result = "duplicate"
    THEN Some([type |-> "ValueError", message |-> "Notebook with ID "])
    ELSE IF result = "not_found"
    THEN Some([type |-> "ValueError", message |-> "Notebook not found: "])
    ELSE None

\* C22: the failure a caller gets for an unknown id (update, select, increment_use) is
\* of another kind than the one it gets for a disallowed URL (add, update) and than the
\* one it gets for a duplicate id (add): the caller can tell them apart by the kind of
\* the failure, without reading the message
NotFoundIsOfItsOwnKind ==
    last.result = "not_found"
    => \A r \in {"invalid_url", "duplicate"} :
          Get(Raised(last.result)).type # Get(Raised(r)).type

\* The five texts of a record that search looks at, lists joined by single spaces
SearchedTexts(n) == {n.name, n.description, Join(n.topics), Join(n.tags), Join(n.use_cases)}

\* The same five texts joined into one
Concatenation(n) == Join(<<n.name, n.description, Join(n.topics), Join(n.tags), Join(n.use_cases)>>)

\* C23 as stated: search(query) returns exactly the records for which the lowercased
\* query is a substring of the lowercased concatenation of name, description, topics,
\* tags and use_cases, in the order of list()
SearchMatchesConcatenation ==
    last.op = "search"
    => last.returned = SelectSeq(list_notebooks,
                                 LAMBDA n : Contains(lower(Concatenation(n)), lower(last.query)))

\* C23: search(query) returns exactly the records for which the lowercased query is a
\* substring of one of the lowercased name, description, joined topics, joined tags and
\* joined use_cases, each taken on its own, in the order of list(); a query that
\* matches only a tag returns that record
SearchMatchesOneText ==
    last.op = "search"
    => last.returned = SelectSeq(list_notebooks,
                                 LAMBDA n : \E text \in SearchedTexts(n) :
                                               Contains(lower(text), lower(last.query)))

\* Of two records one has lost its tags; a query in capitals that matches the tag only
\* was answered with the other one
TagOnlyQueryAnswered ==
    /\ last.op = "search" /\ last.query = Query_Tag
    /\ Len(notebooks) = 2
    /\ Len(last.returned) = 1
    /\ last.returned[1].tags = Tags0
    /\ ~Contains(lower(last.returned[1].name), lower(Query_Tag))

\* C24: get_stats reports as most used a record whose use_count is the greatest in the
\* library and, of the records with that use_count, the first in the order of the
\* mapping; it reports none when the library is empty; and its total use count is the
\* sum of the use_count of all records
StatsMostUsedAndTotal ==
    last.op = "get_stats"
    => /\ IsNone(last.returned.most_used_notebook) <=> notebooks = <<>>
       /\ notebooks # <<>>
          => \E i \in 1..Len(notebooks) :
                /\ Get(last.returned.most_used_notebook) = notebooks[i].val
                /\ \A j \in 1..Len(notebooks) : notebooks[j].val.use_count <= notebooks[i].val.use_count
                /\ \A j \in 1..(i - 1) : notebooks[j].val.use_count < notebooks[i].val.use_count
       /\ last.returned.total_use_count
            = Cardinality({ u \in (1..Len(notebooks)) \X (1..(MaxUse + 1)) :
                              u[2] <= notebooks[u[1]].val.use_count })

\* Two records, each used once: the first of them is reported as the most used
TiedMostUsedIsFirst ==
    /\ last.op = "get_stats"
    /\ Len(notebooks) = 2
    /\ notebooks[1].val.use_count = 1 /\ notebooks[2].val.use_count = 1
    /\ last.returned.most_used_notebook = Some(notebooks[1].val)
    /\ last.returned.total_use_count = 2

ChecksInOrder == <<"empty", "format", "scheme", "domain", "path", "fragment">>
Fails(url, check) ==
    IF check = "empty" THEN strip(url) = <<>>
    ELSE IF check = "format" THEN urlparse(strip(url)).error
    ELSE IF check = "scheme" THEN urlparse(strip(url)).scheme # ALLOWED_SCHEME
    ELSE IF check = "domain" THEN urlparse(strip(url)).netloc # ALLOWED_DOMAIN
    ELSE IF check = "path" THEN ~MatchesValidPath(urlparse(strip(url)).path)
    ELSE urlparse(strip(url)).fragment # <<>>

\* C26: when a string fails several of validate's checks at once, the reason validate
\* reports is that of the first failing check in the order of the contract
FirstFailingCheckReported ==
    ValidateCalled
    => \A i \in DOMAIN ChecksInOrder :
          (/\ Fails(Assemble(url_parts), ChecksInOrder[i])
           /\ \A j \in 1..(i - 1) : ~Fails(Assemble(url_parts), ChecksInOrder[j]))
          => ~Get(url_call).ok /\ Get(url_call).reason = ChecksInOrder[i]

\* validate was called on a string with a foreign host, a bad path and a fragment, and
\* reported the host
ThreeFailuresHostReported ==
    /\ ValidateCalled
    /\ Fails(Assemble(url_parts), "domain")
    /\ Fails(Assemble(url_parts), "path")
    /\ Fails(Assemble(url_parts), "fragment")
    /\ Get(url_call).reason = "domain"

\* C27: in every state reached from the empty library by add, update, remove, select
\* and increment_use calls, a library that holds records has an active notebook
NonEmptyHasActive ==
    notebooks # <<>> => ~IsNone(active_notebook_id)

\* Of two records the active one was removed; the one that is left is now active
LastRecordLeftIsActive ==
    /\ last.op = "remove" /\ last.result = "ok" /\ last.on_active
    /\ Len(notebooks) = 1
    /\ ~IsNone(active_notebook_id)

\* C28: validate is idempotent on what it returns: for every string it accepts,
\* validating the returned URL succeeds and returns that same URL
ValidateIdempotent ==
    (ValidateCalled /\ Get(url_call).ok)
    => /\ validate(Get(url_call).url).ok
       /\ validate(Get(url_call).url).url = Get(url_call).url

\* C29: SkillRunner.run starts no subprocess for a script whose name, with a leading
\* 'scripts/' cut off and '.py' added if missing, is not in the whitelist: the check
\* comes before the virtual environment is set up and before the script is run, and
\* the process exits with status 1 having started nothing
UnlistedScriptStartsNothing ==
    (runner.pc # "idle" /\ NormalizedName(runner.script_name) \notin ALLOWED_SCRIPTS)
    => /\ runner.started = <<>>
       /\ runner.pc \in {"validate_script", "exited"}
       /\ runner.pc = "exited" => runner.exit = Some(1)

\* run.py was asked for 'scripts/run', an installed script that is not in the whitelist,
\* with no virtual environment yet: it has exited with 1 and started nothing
InstalledUnlistedScriptRefused ==
    /\ runner.pc = "exited"
    /\ runner.script_name = <<"s", "c", "r", "i", "p", "t", "s", "/", "r", "u", "n">>
    /\ NormalizedName(runner.script_name) \in runner.files
    /\ ~runner.venv
    /\ runner.exit = Some(1)
    /\ runner.started = <<>>

\* The directories inside the data directory: itself and the directories below it
InsideData(t) == {"data"} \cup { e.to : e \in { f \in Below(t, "data") : f.kind = "dir" } }

\* C30: perform_cleanup with dry_run true deletes nothing; with preserve_library true
\* it does not delete library.json, whatever else the data directory holds; and what
\* it deletes is inside the data directory
CleanupKeepsWhatItMust ==
    [][last'.op = "perform_cleanup"
       => /\ last'.query.dry_run => tree' = tree
          /\ last'.query.preserve_library
             => (File("data", "library.json") \in tree => File("data", "library.json") \in tree')
          /\ \A e \in tree \ tree' : e.at \in InsideData(tree)]_vars

====
